---- MODULE Spec2Model ----
(***************************************************************************)
(* Model of rust/definitions/src/helpers.rs (parity-signer): hexadecimal   *)
(* decoding, MultiSigner construction and accessors, base58 and Ethereum   *)
(* address printing, identicon dispatch.                                   *)
(*                                                                         *)
(* Byte strings are sequences of integers 0..255.  Text is a sequence of   *)
(* one-character strings.  The functions of helpers.rs are operators; the  *)
(* actions apply them to inputs drawn from bounded sets.                   *)
(*                                                                         *)
(* The external crates (hex, libsecp256k1, KeccakHasher, Ss58Codec,        *)
(* plot_icon, eth_blockies) are modelled at the call that uses them; the   *)
(* elliptic-curve arithmetic, Keccak-256 and the image generators are      *)
(* deterministic stand-ins with the libraries' input/output shapes.        *)
(***************************************************************************)
EXTENDS Integers, Sequences, FiniteSets, TLC

VARIABLES op, arg, ret, trace, signer

vars == <<op, arg, ret, trace, signer>>

(***************************************************************************)
(* Bounds of the model.                                                    *)
(***************************************************************************)
\* longest text handed to unhex
MaxHexLen == 6
\* key bytes are drawn from 0..MaxByte and 255
MaxByte == 3
\* key lengths are drawn from 0 and (32 - LenSlack)..(33 + LenSlack)
LenSlack == 1

(***************************************************************************)
(* Results: Ok(v), Err(e), and the panic of an unwrap on Err(e).           *)
(***************************************************************************)
Ok(v) == [kind |-> "Ok", val |-> v]

Err(e) == [kind |-> "Err", val |-> e]

Panicked(e) == [kind |-> "Panic", val |-> e]

(***************************************************************************)
(* crate::error::Error, as far as helpers.rs constructs it.                *)
(* WrongPublicKeyLength is written as a unit variant (lines 115, 122,      *)
(* 129).  The two other errors are made by `?` from the library's error    *)
(* (From conversion), so they carry that error and nothing else; their     *)
(* names are those of the specification's error taxonomy.                  *)
(***************************************************************************)
WrongPublicKeyLength == [name |-> "WrongPublicKeyLength", data |-> <<>>]

FromHexError(e) == [name |-> "InvalidHex", data |-> e]

FromSecpError(e) == [name |-> "PointDecompressionFailed", data |-> e]

(***************************************************************************)
(* hex::decode                                                             *)
(***************************************************************************)
LowerDigits == <<"0","1","2","3","4","5","6","7","8","9","a","b","c","d","e","f">>

UpperDigits == <<"0","1","2","3","4","5","6","7","8","9","A","B","C","D","E","F">>

IsHexChar(c) == \E i \in 1..16 : LowerDigits[i] = c \/ UpperDigits[i] = c

\* value of one hexadecimal character (hex::val)
HexVal(c) == (CHOOSE i \in 1..16 : LowerDigits[i] = c \/ UpperDigits[i] = c) - 1

\* hex::decode: OddLength first, then the first invalid character, with its
\* 0-based index; else one byte per pair of characters
HexDecode(text) ==
    IF Len(text) % 2 # 0
    THEN Err(<<"OddLength">>)
    ELSE IF \E i \in 1..Len(text) : ~IsHexChar(text[i])
         THEN LET bad == CHOOSE i \in 1..Len(text) :
                             /\ ~IsHexChar(text[i])
                             /\ \A j \in 1..(i - 1) : IsHexChar(text[j])
              IN  Err(<<"InvalidHexCharacter", text[bad], bad - 1>>)
         ELSE Ok([k \in 1..(Len(text) \div 2) |->
                     16 * HexVal(text[2 * k - 1]) + HexVal(text[2 * k])])

\* str::strip_prefix("0x"): Some(rest) as <<rest>>, None as <<>>
StripPrefix0x(text) ==
    IF Len(text) >= 2 /\ text[1] = "0" /\ text[2] = "x"
    THEN <<SubSeq(text, 3, Len(text))>>
    ELSE <<>>

\* faulty variant of unhex: the 0x prefix is not stripped
unhexNoStrip(hex_entry) ==
    LET r == HexDecode(hex_entry)
    IN  IF r.kind = "Ok" THEN r ELSE Err(FromHexError(r.val))

unhex(hex_entry) ==
    LET stripped == StripPrefix0x(hex_entry)
        entry == IF stripped # <<>> THEN stripped[1] ELSE hex_entry
        r == HexDecode(entry)
    IN  IF r.kind = "Ok" THEN r ELSE Err(FromHexError(r.val))

(***************************************************************************)
(* MultiSigner and its accessors                                           *)
(***************************************************************************)
Encryptions == {"Ed25519", "Sr25519", "Ecdsa", "Ethereum"}

MultiSigner(variant, key) == [variant |-> variant, key |-> key]

NoSigner == [variant |-> "None", key |-> <<>>]

\* faulty variant of multisigner_to_public: the tag byte of an Ecdsa key is dropped
multisigner_to_public_skip_tag(m) ==
    IF m.variant = "Ecdsa" THEN Tail(m.key) ELSE m.key

multisigner_to_public(m) == m.key

\* faulty variant of multisigner_to_encryption: an Ecdsa key reads back as Ethereum
multisigner_to_encryption_ethereum(m) ==
    CASE m.variant = "Ed25519" -> "Ed25519"
      [] m.variant = "Sr25519" -> "Sr25519"
      [] m.variant = "Ecdsa" -> "Ethereum"

multisigner_to_encryption(m) ==
    CASE m.variant = "Ed25519" -> "Ed25519"
      [] m.variant = "Sr25519" -> "Sr25519"
      [] m.variant = "Ecdsa" -> "Ecdsa"

\* Vec<u8>::try_into::<[u8; n]>(): the array, or the vector handed back
TryIntoArray(v, n) == IF Len(v) = n THEN Ok(v) ELSE Err(v)

Ed25519Len == 32

Sr25519Len == 32

EcdsaLen == 33

\* faulty variant of get_multisigner: the Ecdsa arm converts to [u8; 32] too
get_multisigner_ecdsa32(public, encryption) ==
    LET n == IF encryption = "Ed25519" THEN Ed25519Len ELSE Sr25519Len
        variant == IF encryption \in {"Ecdsa", "Ethereum"} THEN "Ecdsa" ELSE encryption
        into_pubkey == TryIntoArray(public, n)
    IN  IF into_pubkey.kind = "Err"
        THEN Err(WrongPublicKeyLength)
        ELSE Ok(MultiSigner(variant, into_pubkey.val))

get_multisigner(public, encryption) ==
    CASE encryption = "Ed25519" ->
           LET into_pubkey == TryIntoArray(public, Ed25519Len)
           IN  IF into_pubkey.kind = "Err"
               THEN Err(WrongPublicKeyLength)
               ELSE Ok(MultiSigner("Ed25519", into_pubkey.val))
      [] encryption = "Sr25519" ->
           LET into_pubkey == TryIntoArray(public, Sr25519Len)
           IN  IF into_pubkey.kind = "Err"
               THEN Err(WrongPublicKeyLength)
               ELSE Ok(MultiSigner("Sr25519", into_pubkey.val))
      [] encryption \in {"Ecdsa", "Ethereum"} ->
           LET into_pubkey == TryIntoArray(public, EcdsaLen)
           IN  IF into_pubkey.kind = "Err"
               THEN Err(WrongPublicKeyLength)
               ELSE Ok(MultiSigner("Ecdsa", into_pubkey.val))

(***************************************************************************)
(* Ethereum address of an ecdsa::Public                                    *)
(***************************************************************************)
\* libsecp256k1::PublicKey::parse_slice(p, Some(Compressed)): 33 bytes, the
\* tag byte 0x02 or 0x03 and the 32 bytes after it the abscissa of a curve
\* point.  The all-0xff abscissa is not below the field prime.  Whether
\* x^3 + 7 has a square root is a stand-in: it has one when x[1] is odd.
ParseSlice(p) ==
    IF Len(p) # 33
    THEN Err(<<"InvalidInputLength">>)
    ELSE LET x == SubSeq(p, 2, 33)
         IN  IF /\ p[1] \in {2, 3}
                /\ \E i \in 1..32 : x[i] # 255
                /\ x[1] % 2 = 1
             THEN Ok([odd |-> p[1] = 3, x |-> x])
             ELSE Err(<<"InvalidPublicKey">>)

\* PublicKey::serialize(): 0x04, x, y (65 bytes).  The ordinate is a stand-in
\* computed from the abscissa and the parity.
Serialize(point) ==
    LET y == [i \in 1..32 |-> (7 * point.x[i] + 3 * i + (IF point.odd THEN 1 ELSE 0)) % 256]
    IN  <<4>> \o point.x \o y

RECURSIVE WeightedSum(_, _, _)
WeightedSum(m, i, j) ==
    IF j = 0 THEN 0 ELSE ((i + j) * m[j] + WeightedSum(m, i, j - 1)) % 256

\* KeccakHasher::hash: 32 bytes.  A stand-in that depends on every byte of
\* the message and on its position.
KeccakHash(m) == [i \in 1..32 |-> (WeightedSum(m, i, Len(m)) + 31 * i) % 256]

\* H160::from(H256): the bytes 12..31 of the hash
H160FromH256(h) == SubSeq(h, 13, 32)

\* format!("{:?}", HexDisplay::from(bytes)): two lowercase digits per byte
HexDisplay(bytes) ==
    [k \in 1..(2 * Len(bytes)) |->
        IF k % 2 = 1
        THEN LowerDigits[(bytes[(k + 1) \div 2] \div 16) + 1]
        ELSE LowerDigits[(bytes[k \div 2] % 16) + 1]]

\* faulty variant of ecdsa_public_to_eth_address: hashes decompressed[0..64]
eth_address_keep_format_byte(public) ==
    LET parsed == ParseSlice(public)
    IN  IF parsed.kind = "Err"
        THEN Err(FromSecpError(parsed.val))
        ELSE LET decompressed == Serialize(parsed.val)
                 m == SubSeq(decompressed, 1, 64)
             IN  Ok(H160FromH256(KeccakHash(m)))

\* faulty variant of ecdsa_public_to_eth_address: a parse failure is ignored
eth_address_no_parse_error(public) ==
    LET parsed == ParseSlice(public)
        point == IF parsed.kind = "Err"
                 THEN [odd |-> FALSE, x |-> SubSeq(public, 2, 33)]
                 ELSE parsed.val
        decompressed == Serialize(point)
        m == SubSeq(decompressed, 2, 65)
    IN  Ok(H160FromH256(KeccakHash(m)))

ecdsa_public_to_eth_address(public) ==
    LET parsed == ParseSlice(public)
    IN  IF parsed.kind = "Err"
        THEN Err(FromSecpError(parsed.val))
        ELSE LET decompressed == Serialize(parsed.val)
                 m == SubSeq(decompressed, 2, 65)
             IN  Ok(H160FromH256(KeccakHash(m)))

print_ethereum_address(public) ==
    LET account == ecdsa_public_to_eth_address(public)
    IN  IF account.kind = "Err"
        THEN account
        ELSE Ok(HexDisplay(account.val))

(***************************************************************************)
(* Base58 (SS58) address of a MultiSigner                                  *)
(***************************************************************************)
Base58Alphabet ==
    << "1","2","3","4","5","6","7","8","9",
       "A","B","C","D","E","F","G","H","J","K","L","M","N","P","Q","R","S","T","U","V","W","X","Y","Z",
       "a","b","c","d","e","f","g","h","i","j","k","m","n","o","p","q","r","s","t","u","v","w","x","y","z" >>

\* quotient and remainder of the base-256 number `bytes` divided by 58
RECURSIVE DivMod58(_, _, _, _)
DivMod58(bytes, i, rem, quot) ==
    IF i > Len(bytes)
    THEN [quot |-> quot, rem |-> rem]
    ELSE LET cur == rem * 256 + bytes[i]
         IN  DivMod58(bytes, i + 1, cur % 58, Append(quot, cur \div 58))

RECURSIVE StripZeros(_)
StripZeros(bytes) ==
    IF bytes # <<>> /\ bytes[1] = 0 THEN StripZeros(Tail(bytes)) ELSE bytes

RECURSIVE LeadingZeros(_)
LeadingZeros(bytes) ==
    IF bytes # <<>> /\ bytes[1] = 0 THEN 1 + LeadingZeros(Tail(bytes)) ELSE 0

RECURSIVE Base58Digits(_)
Base58Digits(bytes) ==
    IF bytes = <<>>
    THEN <<>>
    ELSE LET d == DivMod58(bytes, 1, 0, <<>>)
         IN  Append(Base58Digits(StripZeros(d.quot)), Base58Alphabet[d.rem + 1])

\* bs58 encoding: one "1" per leading zero byte, then the base-58 digits
Base58Encode(bytes) ==
    [i \in 1..LeadingZeros(bytes) |-> "1"] \o Base58Digits(StripZeros(bytes))

\* first two bytes of blake2b-512("SS58PRE" ++ payload): a stand-in
Ss58Checksum(payload) ==
    <<(WeightedSum(payload, 1, Len(payload)) + 83) % 256,
      (WeightedSum(payload, 2, Len(payload)) + 58) % 256>>

\* Ss58Codec::to_ss58check_with_version: the identifier is the version with its
\* upper two bits masked out, written on one byte (0..63) or two (64..16383)
to_ss58check_with_version(key, version) ==
    LET ident == version % 16384
        v == IF ident <= 63
             THEN <<ident>>
             ELSE << ((ident % 256) \div 4) + 64,
                     (ident \div 256) + 64 * (ident % 4) >>
        payload == v \o key
    IN  Base58Encode(payload \o Ss58Checksum(payload))

\* Ss58Codec::to_ss58check: the default version, SubstrateAccount
to_ss58check(key) == to_ss58check_with_version(key, 42)

\* Ss58AddressFormat::custom(prefix)
Ss58AddressFormatCustom(prefix) == prefix

\* variant of print_multisigner_as_base58 that rejects a prefix above 16383
print_base58_validating(multi_signer, optional_prefix) ==
    IF optional_prefix # <<>>
    THEN IF optional_prefix[1] > 16383
         THEN Err([name |-> "InvalidPrefixRange", data |-> <<optional_prefix[1]>>])
         ELSE Ok(to_ss58check_with_version(multi_signer.key,
                     Ss58AddressFormatCustom(optional_prefix[1])))
    ELSE Ok(to_ss58check(multi_signer.key))

\* optional_prefix: None as <<>>, Some(p) as <<p>>
print_multisigner_as_base58(multi_signer, optional_prefix) ==
    IF optional_prefix # <<>>
    THEN LET base58prefix == optional_prefix[1]
             version_for_base58 == Ss58AddressFormatCustom(base58prefix)
         IN  CASE multi_signer.variant = "Ed25519" ->
                    Ok(to_ss58check_with_version(multi_signer.key, version_for_base58))
               [] multi_signer.variant = "Sr25519" ->
                    Ok(to_ss58check_with_version(multi_signer.key, version_for_base58))
               [] multi_signer.variant = "Ecdsa" ->
                    Ok(to_ss58check_with_version(multi_signer.key, version_for_base58))
    ELSE CASE multi_signer.variant = "Ed25519" -> Ok(to_ss58check(multi_signer.key))
           [] multi_signer.variant = "Sr25519" -> Ok(to_ss58check(multi_signer.key))
           [] multi_signer.variant = "Ecdsa" -> Ok(to_ss58check(multi_signer.key))

(***************************************************************************)
(* Identicons                                                              *)
(***************************************************************************)
IdenticonSize == 72

\* plot_icon::EMPTY_PNG
EMPTY_PNG == [image |-> "empty", seed |-> <<>>, size |-> 0]

\* plot_icon::generate_png: the picture of the seed, or the encoder's error;
\* whether the encoder fails is the environment's choice
generate_png(into_id, size, png_fails) ==
    IF png_fails
    THEN Err(<<"EncodingError">>)
    ELSE Ok([image |-> "dots", seed |-> into_id, size |-> size])

\* SeedString::canonicalize_ethaddr: lowercase, with the 0x prefix
canonicalize_ethaddr(account) ==
    LET lower == [k \in 1..Len(account) |->
                     IF \E i \in 1..16 : UpperDigits[i] = account[k]
                     THEN LowerDigits[CHOOSE i \in 1..16 : UpperDigits[i] = account[k]]
                     ELSE account[k]]
    IN  IF StripPrefix0x(lower) # <<>> THEN lower ELSE <<"0", "x">> \o lower

\* eth_blockies::eth_blockies_png_data(seed, dimension, compressed_output)
eth_blockies_png_data(account, dimension, compressed_output) ==
    [image |-> "blockies", seed |-> account, size |-> dimension[1]]

make_identicon(into_id, png_fails) ==
    LET r == generate_png(into_id, IdenticonSize, png_fails)
    IN  IF r.kind = "Ok" THEN r.val ELSE EMPTY_PNG

\* faulty variant of make_identicon_from_multisigner: Blockies derives an
\* address from the key of any variant
make_identicon_blockies_any(multisigner, style, png_fails) ==
    IF style = "Dots"
    THEN [out |-> Ok(make_identicon(multisigner_to_public(multisigner), png_fails)),
          calls |-> <<"generate_png">>]
    ELSE LET account == print_ethereum_address(multisigner.key)
         IN  IF account.kind = "Err"
             THEN [out |-> Panicked(account.val),
                   calls |-> <<"ecdsa_public_to_eth_address">>]
             ELSE [out |-> Ok(eth_blockies_png_data(canonicalize_ethaddr(account.val),
                                  <<IdenticonSize, IdenticonSize>>, FALSE)),
                   calls |-> <<"ecdsa_public_to_eth_address", "eth_blockies_png_data">>]

\* the result, and the library functions the call went through
make_identicon_from_multisigner(multisigner, style, png_fails) ==
    IF style = "Dots"
    THEN [out |-> Ok(make_identicon(multisigner_to_public(multisigner), png_fails)),
          calls |-> <<"generate_png">>]
    ELSE IF multisigner.variant = "Ecdsa"
         THEN LET account == print_ethereum_address(multisigner.key)
              IN  IF account.kind = "Err"
                  THEN [out |-> Panicked(account.val),
                        calls |-> <<"ecdsa_public_to_eth_address">>]
                  ELSE [out |-> Ok(eth_blockies_png_data(
                                       canonicalize_ethaddr(account.val),
                                       <<IdenticonSize, IdenticonSize>>, FALSE)),
                        calls |-> <<"ecdsa_public_to_eth_address",
                                    "eth_blockies_png_data">>]
         ELSE [out |-> Ok(EMPTY_PNG), calls |-> <<>>]

make_identicon_from_account(account, png_fails) == make_identicon(account, png_fails)

pic_meta(meta_hash, png_fails) == make_identicon(meta_hash, png_fails)

pic_types(types_hash, png_fails) == make_identicon(types_hash, png_fails)

(***************************************************************************)
(* Inputs                                                                  *)
(***************************************************************************)
HexAlphabet == {"0", "1", "a", "F", "x", "X"}

\* the texts of length n over HexAlphabet
TextsOfLen(n) == [1..n -> HexAlphabet]

ByteVals == (0..MaxByte) \cup {255}

KeyLengths == {0} \cup ((Ed25519Len - LenSlack)..(EcdsaLen + LenSlack))

\* a byte string of length n: first byte f, every other byte b
MkBytes(f, b, n) == [i \in 1..n |-> IF i = 1 THEN f ELSE b]

PublicInputs == {MkBytes(f, b, n) : f \in ByteVals, b \in ByteVals, n \in KeyLengths}

IdenticonStyles == {"Dots", "Blockies"}

\* u16 prefixes around the limits of the one- and two-byte encodings
PrefixInputs == {0, 42, 63, 64, 255, 16383, 16384, 16426, 65535}

OptionalPrefixes == {<<>>} \cup {<<p>> : p \in PrefixInputs}

(***************************************************************************)
(* Actions                                                                 *)
(***************************************************************************)
Init ==
    /\ op = "none"
    /\ arg = <<>>
    /\ ret = Ok(<<>>)
    /\ trace = <<>>
    /\ signer = NoSigner

\* the caller takes the result of the finished call
Return ==
    /\ op # "none"
    /\ op' = "none"
    /\ arg' = <<>>
    /\ ret' = Ok(<<>>)
    /\ trace' = <<>>
    /\ UNCHANGED signer

CallUnhex(hex_entry) ==
    /\ op = "none"
    /\ op' = "unhex"
    /\ arg' = hex_entry
    /\ ret' = unhex(hex_entry)
    /\ trace' = <<"hex::decode">>
    /\ UNCHANGED signer

CallGetMultisigner(public, encryption) ==
    LET r == get_multisigner(public, encryption)
    IN  /\ op = "none"
        /\ op' = "get_multisigner"
        /\ arg' = [public |-> public, encryption |-> encryption]
        /\ ret' = r
        /\ trace' = <<>>
        /\ signer' = IF r.kind = "Ok" THEN r.val ELSE signer

\* position of the caller: no call is in progress
Idle == op = "none"

\* the caller holds a key
HasSigner == signer # NoSigner

CallMultisignerToPublic ==
    /\ op' = "multisigner_to_public"
    /\ arg' = signer
    /\ ret' = Ok(multisigner_to_public(signer))
    /\ trace' = <<>>
    /\ UNCHANGED signer

CallMultisignerToEncryption ==
    /\ op' = "multisigner_to_encryption"
    /\ arg' = signer
    /\ ret' = Ok(multisigner_to_encryption(signer))
    /\ trace' = <<>>
    /\ UNCHANGED signer

CallMakeIdenticonFromMultisigner(style, png_fails) ==
    LET r == make_identicon_from_multisigner(signer, style, png_fails)
    IN  /\ op' = "make_identicon_from_multisigner"
        /\ arg' = [multisigner |-> signer, style |-> style]
        /\ ret' = r.out
        /\ trace' = r.calls
        /\ UNCHANGED signer

CallMakeIdenticon(name, into_id, png_fails) ==
    /\ op' = name
    /\ arg' = into_id
    /\ ret' = Ok(CASE name = "make_identicon_from_account" ->
                        make_identicon_from_account(into_id, png_fails)
                   [] name = "pic_meta" -> pic_meta(into_id, png_fails)
                   [] name = "pic_types" -> pic_types(into_id, png_fails))
    /\ trace' = <<"generate_png">>
    /\ UNCHANGED signer

CallPrintMultisignerAsBase58(optional_prefix) ==
    /\ op' = "print_multisigner_as_base58"
    /\ arg' = [multi_signer |-> signer, optional_prefix |-> optional_prefix]
    /\ ret' = print_multisigner_as_base58(signer, optional_prefix)
    /\ trace' = <<>>
    /\ UNCHANGED signer

CallEcdsaPublicToEthAddress ==
    /\ op' = "ecdsa_public_to_eth_address"
    /\ arg' = signer
    /\ ret' = ecdsa_public_to_eth_address(signer.key)
    /\ trace' = <<"ecdsa_public_to_eth_address">>
    /\ UNCHANGED signer

CallPrintEthereumAddress ==
    /\ op' = "print_ethereum_address"
    /\ arg' = signer
    /\ ret' = print_ethereum_address(signer.key)
    /\ trace' = <<"ecdsa_public_to_eth_address">>
    /\ UNCHANGED signer

Unhex ==
    Idle /\ \E n \in 0..MaxHexLen : \E hex_entry \in TextsOfLen(n) : CallUnhex(hex_entry)

GetMultisigner ==
    Idle /\ \E public \in PublicInputs, encryption \in Encryptions :
                CallGetMultisigner(public, encryption)

MultisignerToPublic == Idle /\ HasSigner /\ CallMultisignerToPublic

MultisignerToEncryption == Idle /\ HasSigner /\ CallMultisignerToEncryption

MakeIdenticonFromMultisigner ==
    Idle /\ HasSigner /\ \E style \in IdenticonStyles, png_fails \in BOOLEAN :
                             CallMakeIdenticonFromMultisigner(style, png_fails)

\* make_identicon_from_account takes an AccountId32: 32 bytes
MakeIdenticonFromAccount ==
    Idle /\ \E account \in {b \in PublicInputs : Len(b) = 32}, png_fails \in BOOLEAN :
                CallMakeIdenticon("make_identicon_from_account", account, png_fails)

PicMeta ==
    Idle /\ \E meta_hash \in PublicInputs, png_fails \in BOOLEAN :
                CallMakeIdenticon("pic_meta", meta_hash, png_fails)

PicTypes ==
    Idle /\ \E types_hash \in PublicInputs, png_fails \in BOOLEAN :
                CallMakeIdenticon("pic_types", types_hash, png_fails)

PrintMultisignerAsBase58 ==
    Idle /\ HasSigner /\ \E optional_prefix \in OptionalPrefixes :
                             CallPrintMultisignerAsBase58(optional_prefix)

\* the parameter is an &ecdsa::Public: only the key of an Ecdsa signer fits
EcdsaPublicToEthAddress == Idle /\ signer.variant = "Ecdsa" /\ CallEcdsaPublicToEthAddress

PrintEthereumAddress == Idle /\ signer.variant = "Ecdsa" /\ CallPrintEthereumAddress

NextHex == Unhex \/ Return

SpecHex == Init /\ [][NextHex]_vars

Next ==
    \/ GetMultisigner
    \/ MultisignerToPublic
    \/ MultisignerToEncryption
    \/ MakeIdenticonFromMultisigner
    \/ MakeIdenticonFromAccount
    \/ PicMeta
    \/ PicTypes
    \/ PrintMultisignerAsBase58
    \/ EcdsaPublicToEthAddress
    \/ PrintEthereumAddress
    \/ Return

Spec == Init /\ [][Next]_vars

(***************************************************************************)
(* Vocabulary of the properties                                            *)
(***************************************************************************)
HexDigitChars ==
    {"0","1","2","3","4","5","6","7","8","9",
     "a","b","c","d","e","f","A","B","C","D","E","F"}

LowerHexChars == {"0","1","2","3","4","5","6","7","8","9","a","b","c","d","e","f"}

\* even length, hexadecimal digits only
ValidHex(text) ==
    /\ Len(text) % 2 = 0
    /\ \A i \in 1..Len(text) : text[i] \in HexDigitChars

\* the key length fixed for a declared scheme
ExpectedLen(encryption) == IF encryption \in {"Ed25519", "Sr25519"} THEN 32 ELSE 33

\* the key length fixed for a MultiSigner variant
VariantLen(variant) == IF variant = "Ecdsa" THEN 33 ELSE 32

IsPng(v) == v.image \in {"dots", "blockies", "empty"}

InTrace(name) == \E i \in 1..Len(trace) : trace[i] = name

(***************************************************************************)
(* C1: make_identicon_from_multisigner never fails: for every MultiSigner  *)
(* and every style it returns PNG bytes, and no error or panic reaches    *)
(* the caller.                                                             *)
(***************************************************************************)
C1_IdenticonNeverFails ==
    op = "make_identicon_from_multisigner" => ret.kind = "Ok" /\ IsPng(ret.val)

(***************************************************************************)
(* C2 as stated: for a byte sequence of the wrong length get_multisigner   *)
(* fails with WrongPublicKeyLength, and the error carries the expected     *)
(* length of the scheme and the actual length of the input.                *)
(***************************************************************************)
C2_ErrorCarriesLengths ==
    op = "get_multisigner" /\ Len(arg.public) # ExpectedLen(arg.encryption)
        => /\ ret.kind = "Err"
           /\ ret.val.name = "WrongPublicKeyLength"
           /\ ret.val.data = <<ExpectedLen(arg.encryption), Len(arg.public)>>

(***************************************************************************)
(* C2 amended: for a byte sequence of the wrong length get_multisigner     *)
(* fails with WrongPublicKeyLength, a unit error that carries neither the  *)
(* expected nor the actual length; the key the caller holds is untouched.  *)
(***************************************************************************)
C2_WrongLengthFails ==
    op = "get_multisigner" /\ Len(arg.public) # ExpectedLen(arg.encryption)
        => /\ ret.kind = "Err"
           /\ ret.val.name = "WrongPublicKeyLength"
           /\ ret.val.data = <<>>

C2_Witness ==
    /\ op = "get_multisigner"
    /\ arg.encryption = "Ecdsa"
    /\ Len(arg.public) = 32
    /\ ret.kind = "Err"

(***************************************************************************)
(* C3 as stated: print_multisigner_as_base58 with Some(prefix), prefix >   *)
(* 16383, is rejected with an InvalidPrefixRange error instead of          *)
(* producing an address.                                                   *)
(***************************************************************************)
C3_PrefixRejected ==
    /\ op = "print_multisigner_as_base58"
    /\ arg.optional_prefix # <<>>
    /\ arg.optional_prefix[1] > 16383
    => ret.kind = "Err" /\ ret.val.name = "InvalidPrefixRange"

(***************************************************************************)
(* C3 amended: print_multisigner_as_base58 validates nothing and cannot    *)
(* fail: for every key and every optional prefix it returns a non-empty    *)
(* base58 text, and for Some(prefix) with prefix > 16383 that text is the  *)
(* address of the prefix's low 14 bits.                                    *)
(***************************************************************************)
C3_PrefixNeverRejected ==
    op = "print_multisigner_as_base58"
        => /\ ret.kind = "Ok"
           /\ Len(ret.val) > 0
           /\ \A i \in 1..Len(ret.val) :
                  \E j \in 1..58 : Base58Alphabet[j] = ret.val[i]
           /\ arg.optional_prefix # <<>> =>
                  ret.val = to_ss58check_with_version(arg.multi_signer.key,
                                arg.optional_prefix[1] % 16384)

C3_Witness ==
    /\ op = "print_multisigner_as_base58"
    /\ arg.optional_prefix = <<16384>>
    /\ ret.kind = "Ok"
    /\ ret.val = to_ss58check_with_version(arg.multi_signer.key, 0)

(***************************************************************************)
(* C4: get_multisigner succeeds exactly when the input has the length of   *)
(* the declared scheme (32 for Ed25519 and Sr25519, 33 for Ecdsa and       *)
(* Ethereum); the raw bytes of the key it returns are the input bytes, and *)
(* no constructed key has another length than the one of its variant.      *)
(***************************************************************************)
C4_LengthContract ==
    /\ op = "get_multisigner" =>
          /\ ret.kind = "Ok" <=> Len(arg.public) = ExpectedLen(arg.encryption)
          /\ ret.kind = "Ok" =>
                /\ multisigner_to_public(ret.val) = arg.public
                /\ signer = ret.val
    /\ HasSigner => Len(multisigner_to_public(signer)) = VariantLen(signer.variant)
    /\ op = "multisigner_to_public" => ret.val = arg.key /\ Len(ret.val) = VariantLen(arg.variant)

C4_Witness ==
    /\ op = "get_multisigner"
    /\ arg.encryption = "Ethereum"
    /\ Len(arg.public) = 33
    /\ ret.kind = "Ok"
    /\ multisigner_to_public(signer) = arg.public

(***************************************************************************)
(* C5: for an Ed25519 or Sr25519 MultiSigner, style Blockies returns       *)
(* exactly EMPTY_PNG, without deriving an Ethereum address and without     *)
(* invoking an image generator.                                            *)
(***************************************************************************)
C5_BlockiesPlaceholder ==
    /\ op = "make_identicon_from_multisigner"
    /\ arg.style = "Blockies"
    /\ arg.multisigner.variant \in {"Ed25519", "Sr25519"}
    => /\ ret.kind = "Ok"
       /\ ret.val = EMPTY_PNG
       /\ trace = <<>>

C5_Witness ==
    /\ op = "make_identicon_from_multisigner"
    /\ arg.style = "Blockies"
    /\ arg.multisigner.variant = "Sr25519"
    /\ ret.kind = "Ok"
    /\ ret.val = EMPTY_PNG

(***************************************************************************)
(* C6: for every valid hexadecimal text s, unhex("0x" + s) returns the     *)
(* same bytes as unhex(s).                                                 *)
(***************************************************************************)
C6_PrefixIgnored ==
    op = "unhex" /\ ValidHex(arg)
        => /\ ret.kind = "Ok"
           /\ unhex(<<"0", "x">> \o arg) = ret

C6_Witness ==
    /\ op = "unhex"
    /\ arg = <<"a", "F", "0", "1">>
    /\ ret = Ok(<<175, 1>>)

C8_EthAddress ==
    /\ op \in {"ecdsa_public_to_eth_address", "print_ethereum_address"}
    /\ ParseSlice(arg.key).kind = "Ok"
    => LET uncompressed == Serialize(ParseSlice(arg.key).val)
           xy == [i \in 1..64 |-> uncompressed[i + 1]]
           hash == KeccakHash(xy)
           address == [i \in 1..20 |-> hash[12 + i]]
       IN  /\ Len(uncompressed) = 65
           /\ Len(hash) = 32
           /\ ret.kind = "Ok"
           /\ op = "ecdsa_public_to_eth_address" => ret.val = address
           /\ op = "print_ethereum_address" =>
                 /\ Len(ret.val) = 40
                 /\ \A k \in 1..40 : ret.val[k] \in LowerHexChars
                 /\ \A i \in 1..20 :
                        16 * HexVal(ret.val[2 * i - 1]) + HexVal(ret.val[2 * i]) = address[i]

C8_Witness ==
    /\ op = "print_ethereum_address"
    /\ ParseSlice(arg.key).kind = "Ok"
    /\ ret.kind = "Ok"
    /\ Len(ret.val) = 40

(***************************************************************************)
(* The first half of C9: unhex strips at most one leading lowercase "0x"   *)
(* and fails exactly when the rest has odd length or holds a               *)
(* non-hexadecimal character.                                              *)
(***************************************************************************)
C9_FailsExactly ==
    op = "unhex" =>
        LET rest == IF Len(arg) >= 2 /\ arg[1] = "0" /\ arg[2] = "x"
                    THEN SubSeq(arg, 3, Len(arg))
                    ELSE arg
        IN  ret.kind = "Err" <=> ~ValidHex(rest)

(***************************************************************************)
(* C9: unhex strips at most one leading lowercase "0x" and fails exactly   *)
(* when the rest has odd length or holds a non-hexadecimal character; the  *)
(* error of a failure identifies the input that was rejected: no other     *)
(* rejected input (here: of at most two characters) has the same error.    *)
(***************************************************************************)
C9_ErrorIdentifiesInput ==
    /\ C9_FailsExactly
    /\ op = "unhex" /\ ret.kind = "Err" =>
          \A n \in 0..2 : \A other \in TextsOfLen(n) :
              unhex(other).kind = "Err" /\ unhex(other).val = ret.val => other = arg

(***************************************************************************)
(* C10: the scheme tag round-trips through get_multisigner for Ed25519,    *)
(* Sr25519 and Ecdsa, but a key declared Ethereum reads back as Ecdsa;     *)
(* multisigner_to_encryption never returns Ethereum, and Ethereum and      *)
(* Ecdsa construct the same key.                                           *)
(***************************************************************************)
C10_TagRoundTrip ==
    /\ op = "get_multisigner" /\ ret.kind = "Ok" =>
          /\ multisigner_to_encryption(ret.val) =
                 (IF arg.encryption = "Ethereum" THEN "Ecdsa" ELSE arg.encryption)
          /\ multisigner_to_encryption(ret.val) # "Ethereum"
          /\ arg.encryption = "Ethereum" => ret = get_multisigner(arg.public, "Ecdsa")
          /\ arg.encryption = "Ecdsa" => ret = get_multisigner(arg.public, "Ethereum")
    /\ op = "multisigner_to_encryption" =>
          ret.val = arg.variant /\ ret.val # "Ethereum"

C10_Witness ==
    /\ op = "get_multisigner"
    /\ arg.encryption = "Ethereum"
    /\ ret.kind = "Ok"
    /\ multisigner_to_encryption(signer) = "Ecdsa"

====
